---- MODULE Spec2Model ----
(***************************************************************************)
(* Model of tools/wii_disc_converter/rpx_inject.py: the SNES/NES ROM       *)
(* injector for Wii U Virtual Console RPX images.                          *)
(*                                                                         *)
(* Byte buffers (Python bytearray) are kept run-length encoded: a buffer   *)
(* is a sequence of runs [n |-> count, b |-> byte value] in which no run   *)
(* is empty and no two neighbouring runs carry the same byte.  Every       *)
(* buffer operation below computes on that encoding exactly what the       *)
(* Python operation computes on the bytes, so the program's real offsets   *)
(* (0x7FC0, 0xFFC0, 0x10000, 1024, ...) are kept at their real values.     *)
(***************************************************************************)
EXTENDS Integers, Sequences, FiniteSets, TLC

VARIABLES
    \* ---- inputs of a run of main(), shared by the real and the dry run
    rpx_file,      \* bytes of the RPX file on disk (args.rpx_file)
    rom_file,      \* bytes of the ROM file on disk (args.rom_file)
    system,        \* args.system: "snes" or "nes"
    arg_offset,    \* args.offset: None or an integer
    arg_rom_size,  \* args.rom_size: None or an integer
    \* ---- per-run state of main(), a function of the run ("real", "dry")
    pc,            \* position of main()
    rom_data,      \* local rom_data
    rom_type,      \* local rom_type
    offset,        \* local offset
    original_size, \* local original_size
    result,        \* local result (the buffer inject_rom returned)
    output_file,   \* what write_file stored, None until written
    writes,        \* number of write_file calls
    calls,         \* set of functions of the module invoked so far
    \* ---- state of the pure-function harnesses
    fn,            \* which function was applied last ("none" before)
    data,          \* buffer argument (container / ROM / header buffer)
    rom,           \* second buffer argument (payload / ROM)
    a_offset,      \* integer argument (offset, wup_offset)
    a_size,        \* integer argument (original_size)
    a_kind,        \* rom_type / system argument
    ret            \* what the function returned or left behind

vars == <<rpx_file, rom_file, system, arg_offset, arg_rom_size,
          pc, rom_data, rom_type, offset, original_size, result,
          output_file, writes, calls,
          fn, data, rom, a_offset, a_size, a_kind, ret>>

mainVars == <<rpx_file, rom_file, system, arg_offset, arg_rom_size,
              pc, rom_data, rom_type, offset, original_size, result,
              output_file, writes, calls>>

fnVars == <<fn, data, rom, a_offset, a_size, a_kind, ret>>

----------------------------------------------------------------------------
(* Python values *)

\* A value that may be None is kept wrapped: None is the empty tuple and a
\* value v is the one-element tuple <<v>>.  (The -1 of find() and of
\* find_rom_in_rpx is kept as the integer -1.)
None == <<>>

Some(v) == <<v>>

IsNone(x) == x = <<>>

Val(x) == x[1]

----------------------------------------------------------------------------
(* bytearray, run-length encoded *)

Run(n, b) == [n |-> n, b |-> b]

\* bytearray([b] * n)
Fill(n, b) == IF n <= 0 THEN <<>> ELSE <<Run(n, b)>>

\* len(buf)
RECURSIVE len(_)
len(B) == IF B = <<>> THEN 0 ELSE Head(B).n + len(Tail(B))

\* a + b on bytearrays
Cat(A, B) ==
    IF A = <<>> THEN B
    ELSE IF B = <<>> THEN A
    ELSE IF A[Len(A)].b = B[1].b
         THEN SubSeq(A, 1, Len(A) - 1)
                \o <<Run(A[Len(A)].n + B[1].n, B[1].b)>> \o Tail(B)
         ELSE A \o B

\* buf[k:] for k >= 0
RECURSIVE Drop(_, _)
Drop(B, k) ==
    IF k <= 0 \/ B = <<>> THEN B
    ELSE IF Head(B).n <= k THEN Drop(Tail(B), k - Head(B).n)
    ELSE <<Run(Head(B).n - k, Head(B).b)>> \o Tail(B)

\* buf[:k] for k >= 0
RECURSIVE Take(_, _)
Take(B, k) ==
    IF k <= 0 \/ B = <<>> THEN <<>>
    ELSE IF Head(B).n <= k THEN <<Head(B)>> \o Take(Tail(B), k - Head(B).n)
    ELSE <<Run(k, Head(B).b)>>

\* buf[a:b] for a, b >= 0 (Python clips both ends to the buffer)
Slice(B, a, b) == Take(Drop(B, a), b - a)

\* buf[i] for 0 <= i < len(buf)
At(B, i) == Head(Drop(B, i)).b

\* sum(buf)
RECURSIVE SumBytes(_)
SumBytes(B) == IF B = <<>> THEN 0 ELSE Head(B).n * Head(B).b + SumBytes(Tail(B))

\* a bytes literal, from the sequence of its byte values
RECURSIVE Bytes(_)
Bytes(s) == IF s = <<>> THEN <<>> ELSE Cat(<<Run(1, Head(s))>>, Bytes(Tail(s)))

\* start position of every run of B
RECURSIVE RunStarts(_, _)
RunStarts(B, at) ==
    IF B = <<>> THEN {} ELSE {at} \cup RunStarts(Tail(B), at + Head(B).n)

Min(S) == CHOOSE x \in S : \A y \in S : x <= y

\* buf.find(pat): lowest index of an occurrence of pat, -1 when there is
\* none.  An occurrence starts where a run of buf starts, or where the
\* first run of pat ends together with a run of buf.
Find(B, P) ==
    IF P = <<>> THEN 0
    ELSE LET m     == len(P)
             cands == RunStarts(B, 0)
                        \cup {s - Head(P).n : s \in RunStarts(B, 0) \cup {len(B)}}
             hits  == {p \in cands : p >= 0 /\ p + m <= len(B)
                                     /\ Slice(B, p, p + m) = P}
         IN IF hits = {} THEN -1 ELSE Min(hits)

\* struct.unpack('<H', buf[o:o+2])[0]
UnpackH(B, o) == At(B, o) + 256 * At(B, o + 1)

\* struct.pack('<H', v)
PackH(v) == Bytes(<<v % 256, (v \div 256) % 256>>)

\* buf with buf[o:o+2] overwritten by the two bytes of v (the effect of
\* struct.pack_into('<H', buf, o, v) when o + 2 <= len(buf))
Poke(B, o, v) == Cat(Cat(Take(B, o), PackH(v)), Drop(B, o + 2))

\* struct.pack_into raises struct.error when the two bytes do not fit
PackIntoFits(B, o) == o >= 0 /\ o + 2 <= len(B)

----------------------------------------------------------------------------
(* module constants, rpx_inject.py lines 23-40 *)

SNES_LOROM_HEADER == 32704          \* 0x7FC0
SNES_HIROM_HEADER == 65472          \* 0xFFC0
WUP_SIGNATURE == Bytes(<<87, 85, 80, 45>>)   \* b'WUP-'
SNES_TITLE_OFFSET == 0
SNES_CHECKSUM_COMP_OFFSET == 28     \* 0x1C
SNES_CHECKSUM_OFFSET == 30          \* 0x1E

----------------------------------------------------------------------------
(* strip_smc_header *)

strip_smc_header(rom_data_) ==
    IF len(rom_data_) % 1024 = 512 THEN Drop(rom_data_, 512) ELSE rom_data_

----------------------------------------------------------------------------
(* validate_snes_header *)

\* 0x20 <= b <= 0x7E or b == 0x00
Printable(b) == (32 <= b /\ b <= 126) \/ b = 0

\* sum(1 for b in title if printable)
RECURSIVE CountPrintable(_)
CountPrintable(B) ==
    IF B = <<>> THEN 0
    ELSE (IF Printable(Head(B).b) THEN Head(B).n ELSE 0) + CountPrintable(Tail(B))

\* the first test of validate_snes_header on the 32-byte header window:
\* (checksum + complement) & 0xFFFF == 0xFFFF
ChecksumBranch(header) ==
    LET checksum   == UnpackH(header, SNES_CHECKSUM_OFFSET)
        complement == UnpackH(header, SNES_CHECKSUM_COMP_OFFSET)
    IN (checksum + complement) % 65536 = 65535

\* the second test: at least 15 printable bytes in the 21-byte title
TitleBranch(header) ==
    CountPrintable(Slice(header, SNES_TITLE_OFFSET, SNES_TITLE_OFFSET + 21)) >= 15

validate_snes_header(data_, offset_) ==
    IF offset_ + 32 > len(data_) THEN FALSE
    ELSE LET header == Slice(data_, offset_, offset_ + 32)
         IN IF ChecksumBranch(header) THEN TRUE
            ELSE IF TitleBranch(header) THEN TRUE
            ELSE FALSE

----------------------------------------------------------------------------
(* detect_snes_rom_type *)

detect_snes_rom_type(rom_data_) ==
    IF len(rom_data_) > SNES_LOROM_HEADER + 32
       /\ validate_snes_header(rom_data_, SNES_LOROM_HEADER)
    THEN Some("lorom")
    ELSE IF len(rom_data_) > SNES_HIROM_HEADER + 32
            /\ validate_snes_header(rom_data_, SNES_HIROM_HEADER)
    THEN Some("hirom")
    ELSE None

----------------------------------------------------------------------------
(* find_wup_header, find_rom_in_rpx *)

find_wup_header(rpx_data) == Find(rpx_data, WUP_SIGNATURE)

\* for delta in [0x20, 0x30, 0x40, 0x100, 0x200]
Deltas == <<32, 48, 64, 256, 512>>

\* Strategy 1 accepting the last candidate that classifies instead of the
\* first
Strategy1_last(rpx_data, rom_data_, system_) ==
    LET wup_offset == find_wup_header(rpx_data)
        accepted(i) ==
            LET candidate == wup_offset + Deltas[i]
            IN /\ candidate + len(rom_data_) <= len(rpx_data)
               /\ system_ = "snes"
               /\ ~IsNone(detect_snes_rom_type(
                        Slice(rpx_data, candidate, candidate + 65536)))
        hits == {i \in 1..Len(Deltas) : accepted(i)}
    IN IF wup_offset # -1 /\ hits # {}
       THEN wup_offset + Deltas[CHOOSE i \in hits : \A j \in hits : j <= i]
       ELSE -1

\* Strategy 1 (lines 152-165): the candidate it returns, -1 when it falls
\* through to the next strategy
Strategy1(rpx_data, rom_data_, system_) ==
    LET wup_offset == find_wup_header(rpx_data)
        accepted(i) ==
            LET candidate == wup_offset + Deltas[i]
            IN /\ candidate + len(rom_data_) <= len(rpx_data)
               /\ system_ = "snes"
               /\ ~IsNone(detect_snes_rom_type(
                        Slice(rpx_data, candidate, candidate + 65536)))
        hits == {i \in 1..Len(Deltas) : accepted(i)}
    IN IF wup_offset # -1 /\ hits # {}
       THEN wup_offset + Deltas[Min(hits)]
       ELSE -1

\* header_offset chosen in lines 170-176
ScanHeaderOffset(rom_data_) ==
    LET rt == detect_snes_rom_type(rom_data_)
    IN IF rt = Some("lorom") THEN SNES_LOROM_HEADER
       ELSE IF rt = Some("hirom") THEN SNES_HIROM_HEADER
       ELSE SNES_LOROM_HEADER

\* range(search_start, search_end, 0x8000)
ScanPositions(rpx_data) ==
    LET search_start == 1048576            \* 0x100000
        search_end   == len(rpx_data) - 65536
    IN IF search_end <= search_start THEN {}
       ELSE {search_start + k * 32768 :
                k \in 0..((search_end - search_start - 1) \div 32768)}

\* Strategy 2 accepting the last stride position that validates instead of
\* the first
Strategy2_last(rpx_data, rom_data_, system_) ==
    IF system_ # "snes" THEN -1
    ELSE LET header_offset == ScanHeaderOffset(rom_data_)
             hits == {p \in ScanPositions(rpx_data) :
                        validate_snes_header(rpx_data, p + header_offset)}
         IN IF len(rom_data_) > header_offset + 32 /\ hits # {}
            THEN CHOOSE p \in hits : \A q \in hits : q <= p
            ELSE -1

\* Strategy 2 (lines 167-188)
Strategy2(rpx_data, rom_data_, system_) ==
    IF system_ # "snes" THEN -1
    ELSE LET header_offset == ScanHeaderOffset(rom_data_)
             hits == {p \in ScanPositions(rpx_data) :
                        validate_snes_header(rpx_data, p + header_offset)}
         IN IF len(rom_data_) > header_offset + 32 /\ hits # {}
            THEN Min(hits)
            ELSE -1

\* Strategy 3 (lines 190-195)
Strategy3(rpx_data, rom_data_) == Find(rpx_data, Slice(rom_data_, 0, 1024))

\* find_rom_in_rpx trying the content match before the signature probe
find_rom_in_rpx_content_first(rpx_data, rom_data_, system_) ==
    LET s1 == Strategy1(rpx_data, rom_data_, system_)
        s2 == Strategy2(rpx_data, rom_data_, system_)
        s3 == Strategy3(rpx_data, rom_data_)
    IN IF s3 # -1 THEN s3
       ELSE IF s1 # -1 THEN s1
       ELSE s2

find_rom_in_rpx(rpx_data, rom_data_, system_) ==
    LET s1 == Strategy1(rpx_data, rom_data_, system_)
        s2 == Strategy2(rpx_data, rom_data_, system_)
    IN IF s1 # -1 THEN s1
       ELSE IF s2 # -1 THEN s2
       ELSE Strategy3(rpx_data, rom_data_)

----------------------------------------------------------------------------
(* get_original_rom_size *)

size_map == [k \in {64, 32, 16, 8, 4, 2, 1, 0} |->
                CASE k = 64 -> 4 * 1024 * 1024
                  [] k = 32 -> 2 * 1024 * 1024
                  [] k = 16 -> 1 * 1024 * 1024
                  [] k = 8  -> 512 * 1024
                  [] k = 4  -> 256 * 1024
                  [] k = 2  -> 128 * 1024
                  [] k = 1  -> 64 * 1024
                  [] k = 0  -> 32 * 1024]

get_original_rom_size(rpx_data, wup_offset) ==
    IF wup_offset = -1 \/ wup_offset + 16 >= len(rpx_data) THEN None
    ELSE LET size_byte == At(rpx_data, wup_offset + 14)
         IN IF size_byte \in DOMAIN size_map
            THEN Some(size_map[size_byte])
            ELSE None

----------------------------------------------------------------------------
(* inject_rom *)

\* original_size = 1; while original_size < rom_size: original_size *= 2
RECURSIVE NextPowerOf2(_, _)
NextPowerOf2(size, rom_size) ==
    IF size < rom_size THEN NextPowerOf2(size * 2, rom_size) ELSE size

\* the original_size inject_rom works with (lines 233-237)
InjectSize(rom_data_, original_size_) ==
    IF IsNone(original_size_) THEN NextPowerOf2(1, len(rom_data_))
    ELSE Val(original_size_)

\* PadRom padding with 0x00 instead of 0xFF
PadRom_zero(rom_data_, size) ==
    IF len(rom_data_) < size
    THEN Cat(rom_data_, Fill(size - len(rom_data_), 0))
    ELSE rom_data_

\* rom_data after the padding of lines 244-247
PadRom(rom_data_, size) ==
    IF len(rom_data_) < size
    THEN Cat(rom_data_, Fill(size - len(rom_data_), 255))
    ELSE rom_data_

\* inject_rom with the bounds check off by one (>= len taken for > len + 1)
inject_rom_loose(rpx_data, rom_data_, offset_, original_size_) ==
    LET size == InjectSize(rom_data_, original_size_)
    IN IF len(rom_data_) > size THEN None
       ELSE IF offset_ + size > len(rpx_data) + 1 THEN None
       ELSE Some(Cat(Cat(Take(rpx_data, offset_), PadRom(rom_data_, size)),
                     Drop(rpx_data, offset_ + size)))

\* the returned buffer, or None
inject_rom(rpx_data, rom_data_, offset_, original_size_) ==
    LET size == InjectSize(rom_data_, original_size_)
    IN IF len(rom_data_) > size THEN None
       ELSE IF offset_ + size > len(rpx_data) THEN None
       ELSE Some(Cat(Cat(Take(rpx_data, offset_), PadRom(rom_data_, size)),
                     Drop(rpx_data, offset_ + size)))

----------------------------------------------------------------------------
(* update_snes_header_checksum *)

\* a ^ b on non-negative integers
RECURSIVE Xor(_, _)
Xor(a, b) ==
    IF a = 0 /\ b = 0 THEN 0
    ELSE (((a % 2) + (b % 2)) % 2) + 2 * Xor(a \div 2, b \div 2)

\* header_offset of lines 265-268
RepairHeaderOffset(offset_, rom_type_) ==
    IF rom_type_ = Some("lorom") THEN offset_ + SNES_LOROM_HEADER
    ELSE offset_ + SNES_HIROM_HEADER

\* sum(data[offset:]) & 0xFFFF
RepairChecksum(data_, offset_) == SumBytes(Drop(data_, offset_)) % 65536

\* update_snes_header_checksum storing the checksum in both fields (the
\* XOR with 0xFFFF forgotten)
update_snes_header_checksum_noxor(data_, offset_, rom_type_) ==
    LET header_offset == RepairHeaderOffset(offset_, rom_type_)
        checksum      == RepairChecksum(data_, offset_)
        at_comp       == header_offset + SNES_CHECKSUM_COMP_OFFSET
        at_sum        == header_offset + SNES_CHECKSUM_OFFSET
        first         == Poke(data_, at_comp, checksum)
    IN IF ~PackIntoFits(data_, at_comp) THEN [data |-> data_, raised |-> TRUE]
       ELSE IF ~PackIntoFits(first, at_sum) THEN [data |-> first, raised |-> TRUE]
       ELSE [data |-> Poke(first, at_sum, checksum), raised |-> FALSE]

\* The buffer the call leaves behind and whether it raised struct.error:
\* the complement is packed first, the checksum second, and each pack_into
\* raises when its two bytes do not fit into the buffer.
update_snes_header_checksum(data_, offset_, rom_type_) ==
    LET header_offset == RepairHeaderOffset(offset_, rom_type_)
        checksum      == RepairChecksum(data_, offset_)
        complement    == Xor(checksum, 65535)
        at_comp       == header_offset + SNES_CHECKSUM_COMP_OFFSET
        at_sum        == header_offset + SNES_CHECKSUM_OFFSET
        first         == Poke(data_, at_comp, complement)
    IN IF ~PackIntoFits(data_, at_comp) THEN [data |-> data_, raised |-> TRUE]
       ELSE IF ~PackIntoFits(first, at_sum) THEN [data |-> first, raised |-> TRUE]
       ELSE [data |-> Poke(first, at_sum, checksum), raised |-> FALSE]

----------------------------------------------------------------------------
(* input buffers *)

\* how far buffer lengths and offsets are taken past each boundary
MaxSlack == 2

\* B with the bytes of P written over B[o : o + len(P)], when they fit
PlaceAt(B, o, P) ==
    IF o >= 0 /\ o + len(P) <= len(B)
    THEN Cat(Cat(Take(B, o), P), Drop(B, o + len(P)))
    ELSE B

\* 32-byte header windows: one whose checksum and complement add up to
\* 0xFFFF (0xEDCB + 0x1234) under an unprintable title, one with a printable
\* title and a wrong checksum pair, one that fails both tests
HeaderWindow(kind) ==
    CASE kind = "sum"   -> Cat(Fill(28, 255), Bytes(<<52, 18, 203, 237>>))
      [] kind = "title" -> Cat(Fill(21, 65), Fill(11, 255))
      [] kind = "bad"   -> Fill(32, 255)

HeaderKinds == {"sum", "title", "bad"}

\* the two header locations, rom_type by rom_type
HeaderAt(rom_type_) ==
    IF rom_type_ = "lorom" THEN SNES_LOROM_HEADER ELSE SNES_HIROM_HEADER

RomTypes == {"lorom", "hirom"}

\* the idle values of the state of main() and of the function harnesses
Runs == {"real", "dry"}

MainIdle ==
    /\ rpx_file = <<>> /\ rom_file = <<>> /\ system = "snes"
    /\ arg_offset = None /\ arg_rom_size = None
    /\ pc = [r \in Runs |-> "idle"]
    /\ rom_data = [r \in Runs |-> <<>>]
    /\ rom_type = [r \in Runs |-> None]
    /\ offset = [r \in Runs |-> 0]
    /\ original_size = [r \in Runs |-> None]
    /\ result = [r \in Runs |-> None]
    /\ output_file = [r \in Runs |-> None]
    /\ writes = [r \in Runs |-> 0]
    /\ calls = [r \in Runs |-> {}]

FnIdle ==
    /\ fn = "idle" /\ data = <<>> /\ rom = <<>>
    /\ a_offset = 0 /\ a_size = None /\ a_kind = "" /\ ret = None

----------------------------------------------------------------------------
(* SpecCodec: validate_snes_header, detect_snes_rom_type and              *)
(* update_snes_header_checksum applied to buffers around the header        *)
(* boundaries                                                              *)

\* lengths one byte short of a full header window, exactly a full window,
\* and past it, for both header locations; and a longer and a short buffer
CodecLens ==
    {HeaderAt(t) + 31 + k : t \in RomTypes, k \in 0..MaxSlack}
        \cup {131072, 100}

CodecBuffers ==
    {PlaceAt(Fill(n, f), HeaderAt(t), HeaderWindow(k)) :
        n \in CodecLens, f \in {255, 1}, t \in RomTypes, k \in HeaderKinds}

CodecOffsets == (0..MaxSlack) \cup {512}

InitCodec ==
    /\ MainIdle
    /\ fn = "none"
    /\ data \in CodecBuffers
    /\ rom = <<>>
    /\ a_offset \in CodecOffsets
    /\ a_size = None
    /\ a_kind \in {Some(t) : t \in RomTypes}
    /\ ret = None

\* update_snes_header_checksum(data, a_offset, a_kind): data is mutated in
\* place; ret remembers the buffer as it was passed and whether the call
\* raised
Repair ==
    /\ fn = "none"
    /\ LET r == update_snes_header_checksum(data, a_offset, a_kind)
       IN /\ data' = r.data
          /\ ret' = [before |-> data, raised |-> r.raised]
    /\ fn' = "update_snes_header_checksum"
    /\ UNCHANGED <<rom, a_offset, a_size, a_kind>>
    /\ UNCHANGED mainVars

\* validate_snes_header(data, header_offset) right after the repair
ValidateAfterRepair ==
    /\ fn = "update_snes_header_checksum"
    /\ ret' = [before |-> ret.before, raised |-> ret.raised,
                valid  |-> validate_snes_header(
                               data, RepairHeaderOffset(a_offset, a_kind))]
    /\ fn' = "validate_snes_header"
    /\ UNCHANGED <<data, rom, a_offset, a_size, a_kind>>
    /\ UNCHANGED mainVars

\* detect_snes_rom_type(data)
Classify ==
    /\ fn = "none"
    /\ ret' = detect_snes_rom_type(data)
    /\ fn' = "detect_snes_rom_type"
    /\ UNCHANGED <<data, rom, a_offset, a_size, a_kind>>
    /\ UNCHANGED mainVars

NextCodec == Repair \/ ValidateAfterRepair \/ Classify

SpecCodec == InitCodec /\ [][NextCodec]_vars

\* the checksum test of validate_snes_header passes on the window at h
ValidViaChecksum(B, h) ==
    h + 32 <= len(B) /\ ChecksumBranch(Slice(B, h, h + 32))

\* C1 as stated: whatever the buffer, the offset and the layout, once
\* update_snes_header_checksum was applied, validate_snes_header at the
\* layout's header offset returns true through the checksum test.
C1_AnyBufferValidates ==
    fn = "validate_snes_header" =>
        /\ ret.valid
        /\ ValidViaChecksum(data, RepairHeaderOffset(a_offset, a_kind))

\* C1 amended: when the 32-byte header window at offset + 0x7FC0 (LoROM) or
\* offset + 0xFFC0 (HiROM) lies inside the buffer, the repair does not raise,
\* the stored checksum is the sum of buffer[offset:] mod 65536 taken before
\* the write, the stored complement is checksum XOR 0xFFFF, they add up to
\* 0xFFFF mod 65536, and validate_snes_header returns true through the
\* checksum test.
C1_RepairThenValidate ==
    LET h   == RepairHeaderOffset(a_offset, a_kind)
        sum == SumBytes(Drop(ret.before, a_offset)) % 65536
    IN (fn = "validate_snes_header" /\ h + 32 <= len(ret.before)) =>
        /\ ~ret.raised
        /\ ret.valid
        /\ ValidViaChecksum(data, h)
        /\ UnpackH(data, h + 30) = sum
        /\ UnpackH(data, h + 28) = 65535 - sum
        /\ (UnpackH(data, h + 30) + UnpackH(data, h + 28)) % 65536 = 65535
        /\ len(data) = len(ret.before)

\* C1 witness: a repair at a non-zero payload offset of a buffer whose header
\* failed both tests before, validated afterwards
C1_Witness ==
    /\ fn = "validate_snes_header"
    /\ a_offset > 0
    /\ RepairHeaderOffset(a_offset, a_kind) + 32 <= len(ret.before)
    /\ ~validate_snes_header(ret.before, RepairHeaderOffset(a_offset, a_kind))
    /\ ret.valid

\* C10 as stated: detect_snes_rom_type returns 'lorom' exactly when
\* validate_snes_header(rom, 0x7FC0), 'hirom' exactly when that fails and
\* validate_snes_header(rom, 0xFFC0) holds, None exactly when both fail.
C10_ClassifyIffValidate ==
    LET lo == validate_snes_header(data, SNES_LOROM_HEADER)
        hi == validate_snes_header(data, SNES_HIROM_HEADER)
    IN fn = "detect_snes_rom_type" =>
        /\ (ret = Some("lorom")) <=> lo
        /\ (ret = Some("hirom")) <=> (~lo /\ hi)
        /\ IsNone(ret) <=> (~lo /\ ~hi)

----------------------------------------------------------------------------
(* SpecSplice: inject_rom *)

SpliceContainers ==
    {Cat(Fill(16, 1), Cat(Fill(n - 32, 2), Fill(16, 3))) : n \in {64, 4096}}

\* payloads: empty, short, ending in the fill byte, and around 1024 bytes
SplicePayloads ==
    {<<>>, Bytes(<<7>>), Cat(Fill(900, 170), Fill(100, 255))}
        \cup {Cat(Fill(8, 9), Fill(1015 + k, 170)) : k \in 0..MaxSlack}

SpliceSizes ==
    {None} \cup {Some(n) : n \in {0, 2048} \cup {1023 + k : k \in 0..MaxSlack}}

SpliceOffsets == {0, 10} \cup {3071 + k : k \in 0..MaxSlack}

InitSplice ==
    /\ MainIdle
    /\ fn = "none"
    /\ data \in SpliceContainers
    /\ rom \in SplicePayloads
    /\ a_offset \in SpliceOffsets
    /\ a_size \in SpliceSizes
    /\ a_kind = ""
    /\ ret = None

\* result = inject_rom(data, rom, a_offset, a_size); the arguments are only
\* read (slices and + build new bytearrays)
Inject ==
    /\ fn = "none"
    /\ ret' = inject_rom(data, rom, a_offset, a_size)
    /\ fn' = "inject_rom"
    /\ UNCHANGED <<data, rom, a_offset, a_size, a_kind>>
    /\ UNCHANGED mainVars

\* the caller looks at the result (main: "if result is None")
InjectDone ==
    /\ fn = "inject_rom"
    /\ fn' = IF IsNone(ret) THEN "rejected" ELSE "accepted"
    /\ UNCHANGED <<data, rom, a_offset, a_size, a_kind, ret>>
    /\ UNCHANGED mainVars

NextSplice == Inject \/ InjectDone

SpecSplice == InitSplice /\ [][NextSplice]_vars

\* the size the splice reserves: original_size when given, else the
\* smallest power of two that is at least the payload's length
ReservedSize ==
    IF IsNone(a_size)
    THEN Min({p \in {2 ^ k : k \in 0..12} : p >= len(rom)})
    ELSE Val(a_size)

\* C2: every accepted splice returns container[0 .. offset) ++ payload
\* padded with 0xFF to originalSize ++ container[offset + originalSize ..),
\* of the container's length.
C2_SpliceCorrect ==
    (fn \in {"inject_rom", "accepted"} /\ ~IsNone(ret)) =>
        /\ len(Val(ret)) = len(data)
        /\ Slice(Val(ret), 0, a_offset) = Slice(data, 0, a_offset)
        /\ Slice(Val(ret), a_offset, a_offset + ReservedSize)
             = Cat(rom, Fill(ReservedSize - len(rom), 255))
        /\ Slice(Val(ret), a_offset + ReservedSize, len(data))
             = Slice(data, a_offset + ReservedSize, len(data))

\* C2 witness: an accepted splice in the middle of the container that had
\* to pad the payload
C2_Witness ==
    /\ fn = "accepted"
    /\ a_offset > 0
    /\ 0 < len(rom) /\ len(rom) < ReservedSize
    /\ a_offset + ReservedSize < len(data)
    /\ Val(ret) # data

----------------------------------------------------------------------------
(* SpecLocate: find_wup_header, find_rom_in_rpx, get_original_rom_size *)

Systems == {"snes", "nes"}

\* ROMs: a 32 KB LoROM image and a 64 KB + 1 HiROM image with checksum
\* headers, a 2 KB image without a header, and an image of 0xFF bytes
LocateRoms ==
    { PlaceAt(Cat(Fill(1024, 17), Fill(31744, 18)),
              SNES_LOROM_HEADER, HeaderWindow("sum")),
      PlaceAt(Cat(Fill(1024, 129), Fill(64513, 130)),
              SNES_HIROM_HEADER, HeaderWindow("sum")),
      Cat(Fill(1024, 49), Fill(1024, 50)),
      Fill(32768, 255) }

\* where the marker is put, when it is put
MarkerAt == 4096

\* sets of header windows put after the marker, each as
\* <<delta, rom type, kind of window>>
HeaderPlacements ==
    { {},
      {<<256, "lorom", "sum">>},
      {<<512, "lorom", "title">>},
      {<<64, "hirom", "sum">>},
      {<<48, "hirom", "title">>, <<256, "lorom", "sum">>} }

RECURSIVE PlaceHeaders(_, _)
PlaceHeaders(B, hs) ==
    IF hs = {} THEN B
    ELSE LET h == CHOOSE x \in hs : TRUE
         IN PlaceHeaders(
                PlaceAt(B, MarkerAt + h[1] + HeaderAt(h[2]), HeaderWindow(h[3])),
                hs \ {h})

\* a container of n bytes f: the marker 'WUP-' and the size byte sb at
\* marker + 0x0E when marker is set, the header windows hs, the first 1 KB
\* of the ROM r copied to copy_at when copy_at >= 0, and a checksum header
\* window in the range of the structural scan when the container is that
\* long
Container(n, f, marker, sb, hs, r, copy_at) ==
    LET b0 == Fill(n, f)
        b1 == IF marker
              THEN PlaceAt(PlaceAt(b0, MarkerAt, WUP_SIGNATURE),
                           MarkerAt + 14, Bytes(<<sb>>))
              ELSE b0
        b2 == PlaceHeaders(b1, hs)
        b3 == IF copy_at >= 0 THEN PlaceAt(b2, copy_at, Slice(r, 0, 1024)) ELSE b2
    IN PlaceAt(b3, 1048576 + 32768 + SNES_LOROM_HEADER, HeaderWindow("sum"))

\* container lengths: around the length at which the candidate marker +
\* 0x100 still leaves room for a 32 KB ROM, a 256 KB container, and one
\* long enough for the structural scan
LocateLens ==
    {MarkerAt + 256 + 32768 - 1 + k : k \in 0..MaxSlack}
        \cup {262144, 1048576 + 3 * 65536}

LocateContainers(r) ==
    {Container(n, f, m, 64, hs, r, c) :
        n \in LocateLens, f \in {255, 0}, m \in BOOLEAN,
        hs \in HeaderPlacements, c \in {-1, 12288}}

\* short containers that end around the size byte of the marker: the byte
\* at marker + 0x0E is the last byte, or is followed by one byte, or by more
SizeContainers ==
    {Cat(Cat(Fill(MarkerAt, 255), WUP_SIGNATURE),
         Cat(Fill(10, 0), Cat(Bytes(<<sb>>), Fill(k, 0)))) :
        sb \in {64, 1, 0, 3}, k \in 0..MaxSlack}

InitLocate ==
    /\ MainIdle
    /\ fn = "none"
    /\ rom \in LocateRoms
    /\ data \in LocateContainers(rom) \cup SizeContainers
    /\ a_offset = 0
    /\ a_size = None
    /\ a_kind \in Systems
    /\ ret = None

\* offset = find_rom_in_rpx(data, rom, a_kind)
Locate ==
    /\ fn = "none"
    /\ ret' = find_rom_in_rpx(data, rom, a_kind)
    /\ fn' = "find_rom_in_rpx"
    /\ UNCHANGED <<data, rom, a_offset, a_size, a_kind>>
    /\ UNCHANGED mainVars

\* wup_offset = find_wup_header(data)
FindWup ==
    /\ fn = "none"
    /\ a_offset' = find_wup_header(data)
    /\ fn' = "find_wup_header"
    /\ UNCHANGED <<data, rom, a_size, a_kind, ret>>
    /\ UNCHANGED mainVars

\* original_size = get_original_rom_size(data, wup_offset)
ResolveSize ==
    /\ fn = "find_wup_header"
    /\ ret' = get_original_rom_size(data, a_offset)
    /\ fn' = "get_original_rom_size"
    /\ UNCHANGED <<data, rom, a_offset, a_size, a_kind>>
    /\ UNCHANGED mainVars

NextLocate == Locate \/ FindWup \/ ResolveSize

SpecLocate == InitLocate /\ [][NextLocate]_vars

\* C5: the strategies are tried in the order signature probe, structural
\* scan, content match and the first that succeeds decides; when the
\* signature probe and the content match succeed at different offsets, the
\* offset of the signature probe is returned.
C5_SignatureBeforeContent ==
    LET sig  == Strategy1(data, rom, a_kind)
        scan == Strategy2(data, rom, a_kind)
        cm   == Strategy3(data, rom)
    IN fn = "find_rom_in_rpx" =>
        /\ (sig # -1 /\ cm # -1 /\ sig # cm) => ret = sig
        /\ sig # -1 => ret = sig
        /\ (sig = -1 /\ scan # -1) => ret = scan
        /\ (sig = -1 /\ scan = -1) => ret = cm

\* C5 witness: the signature probe and the content match both succeed, at
\* different offsets
C5_Witness ==
    /\ fn = "find_rom_in_rpx"
    /\ Strategy1(data, rom, a_kind) = MarkerAt + 256
    /\ Strategy3(data, rom) = 12288

\* the marker's first occurrence and the deltas of C8 that qualify
C8_Marker == Find(data, Bytes(<<87, 85, 80, 45>>))

C8_Qualifies(d) ==
    /\ C8_Marker + d + len(rom) <= len(data)
    /\ ~IsNone(detect_snes_rom_type(
            Slice(data, C8_Marker + d, C8_Marker + d + 65536)))

\* C8: for snes, with the marker's first occurrence at s, the locator
\* returns s + d for the first d of 0x20, 0x30, 0x40, 0x100, 0x200 with
\* s + d + len(rom) <= len(container) whose 64 KB window classifies as
\* LoROM or HiROM.
C8_FirstQualifyingDelta ==
    LET ds   == <<32, 48, 64, 256, 512>>
        good == {i \in 1..5 : C8_Qualifies(ds[i])}
    IN (fn = "find_rom_in_rpx" /\ a_kind = "snes"
        /\ C8_Marker # -1 /\ good # {})
       => ret = C8_Marker + ds[Min(good)]

\* C8 witness: two deltas qualify (0x30 by a HiROM title, 0x100 by a LoROM
\* checksum) and 0x20 does not; the lower of the two is returned
C8_Witness ==
    /\ fn = "find_rom_in_rpx" /\ a_kind = "snes"
    /\ C8_Marker = MarkerAt
    /\ ~C8_Qualifies(32) /\ C8_Qualifies(48) /\ C8_Qualifies(256)
    /\ ret = MarkerAt + 48

\* the size-code table of the specification: 0x00 is 32 KB, and 0x01, 0x02,
\* 0x04 ... 0x40 are 64 KB times the code
C7_Table == [k \in {0, 1, 2, 4, 8, 16, 32, 64} |->
                IF k = 0 THEN 32768 ELSE 65536 * k]

\* C7 as stated: the result is the table entry of the byte at marker + 0x0E
\* whenever the marker was found and that byte lies in the container and
\* is a table key, and None only when the marker was not found or the byte
\* has no table entry.
C7_TableLookup ==
    LET found  == a_offset # -1
        inside == a_offset + 14 < len(data)
        key    == inside /\ At(data, a_offset + 14) \in DOMAIN C7_Table
    IN fn = "get_original_rom_size" =>
        /\ (found /\ key) => ret = Some(C7_Table[At(data, a_offset + 14)])
        /\ IsNone(ret) => (~found \/ ~key)

\* the header offset C11 scans with: 0xFFC0 when the ROM classifies as
\* HiROM, 0x7FC0 when it classifies as LoROM or not at all
C11_HeaderOffset ==
    IF detect_snes_rom_type(rom) = Some("hirom") THEN 65472 ELSE 32704

\* the positions 0x100000 + k * 0x8000 below len(container) - 0x10000 at
\* which the container holds a valid header
C11_Valid ==
    {p \in {1048576 + k * 32768 : k \in 0..(len(data) \div 32768)} :
        /\ p < len(data) - 65536
        /\ validate_snes_header(data, p + C11_HeaderOffset)}

\* what C11 says of a snes locate whose signature probe did not succeed:
\* the lowest valid stride position, and the content match only when there
\* is none
C11_ScanResult ==
    /\ C11_Valid # {} => ret = Min(C11_Valid)
    /\ C11_Valid = {} => ret = Strategy3(data, rom)

\* C11 as stated: for snes, when the signature probe does not succeed, the
\* locator returns the lowest valid stride position whatever the length of
\* the ROM, and tries the content match only when there is none.
C11_ScanAnyRomLength ==
    (fn = "find_rom_in_rpx" /\ a_kind = "snes"
     /\ Strategy1(data, rom, a_kind) = -1)
    => C11_ScanResult

\* C11 amended: the same, for a ROM longer than the header offset plus
\* 0x20; for a shorter ROM the scan is skipped and the content match
\* decides.
C11_ScanLongEnoughRom ==
    (fn = "find_rom_in_rpx" /\ a_kind = "snes"
     /\ Strategy1(data, rom, a_kind) = -1)
    => IF len(rom) > C11_HeaderOffset + 32
       THEN C11_ScanResult
       ELSE ret = Strategy3(data, rom)

\* C11 witness: no signature probe result, a LoROM image, a container whose
\* first stride position fails and whose second one validates, and a
\* content match elsewhere that is not taken
C11_Witness ==
    /\ fn = "find_rom_in_rpx" /\ a_kind = "snes"
    /\ Strategy1(data, rom, a_kind) = -1
    /\ detect_snes_rom_type(rom) = Some("lorom")
    /\ C11_Valid # {} /\ Min(C11_Valid) = 1048576 + 32768
    /\ Strategy3(data, rom) = 12288
    /\ ret = 1048576 + 32768

----------------------------------------------------------------------------
(* Spec: main(), run twice on the same files and arguments, once without  *)
(* and once with --dry-run                                                 *)

\* the functions detect_snes_rom_type invokes, itself included
DetectCalls(rom_data_) ==
    {"detect_snes_rom_type"}
        \cup (IF len(rom_data_) > SNES_LOROM_HEADER + 32
              THEN {"validate_snes_header"} ELSE {})

\* the functions find_rom_in_rpx invokes, itself included
LocateCalls(rpx_data, rom_data_, system_) ==
    LET wup_offset == find_wup_header(rpx_data)
        probed == {i \in 1..Len(Deltas) :
                     wup_offset + Deltas[i] + len(rom_data_) <= len(rpx_data)}
        s1 == IF wup_offset # -1 /\ system_ = "snes"
              THEN UNION {DetectCalls(Slice(rpx_data, wup_offset + Deltas[i],
                                            wup_offset + Deltas[i] + 65536)) :
                             i \in probed}
              ELSE {}
        s2 == IF system_ = "snes" /\ Strategy1(rpx_data, rom_data_, system_) = -1
              THEN DetectCalls(rom_data_)
                     \cup (IF len(rom_data_) > ScanHeaderOffset(rom_data_) + 32
                              /\ ScanPositions(rpx_data) # {}
                           THEN {"validate_snes_header"} ELSE {})
              ELSE {}
    IN {"find_rom_in_rpx", "find_wup_header"} \cup s1 \cup s2

\* ROM files: a 32 KB LoROM image, the same image behind a 512-byte
\* wrapper, a 2 KB image without a header, a 64 KB + 1 HiROM image
MainRoms ==
    LET lorom == PlaceAt(Cat(Fill(1024, 17), Fill(31744, 18)),
                         SNES_LOROM_HEADER, HeaderWindow("sum"))
    IN { lorom,
         Cat(Fill(512, 0), lorom),
         Cat(Fill(1024, 49), Fill(1024, 50)),
         PlaceAt(Cat(Fill(1024, 129), Fill(64513, 130)),
                 SNES_HIROM_HEADER, HeaderWindow("sum")) }

\* RPX files of 256 KB; the 1 KB copied into them is the start of the ROM
\* file as it is or with its wrapper stripped
MainContainers(file) ==
    {Container(262144, 255, m, sb, hs, r, c) :
        m \in BOOLEAN, sb \in {0, 3},
        hs \in {{}, {<<256, "lorom", "sum">>}}, c \in {-1, 12288},
        r \in {file, strip_smc_header(file)}}

\* --offset: absent, the marker + 0x100, and 2 KB before the end of the file
MainOffsets == {None, Some(MarkerAt + 256), Some(262144 - 2048)}

\* --rom-size: absent, 32 KB
MainRomSizes == {None, Some(32768)}

Init ==
    /\ FnIdle
    /\ rom_file \in MainRoms
    /\ rpx_file \in MainContainers(rom_file)
    /\ system \in Systems
    /\ arg_offset \in MainOffsets
    /\ arg_rom_size \in MainRomSizes
    /\ pc = [r \in Runs |-> "start"]
    /\ rom_data = [r \in Runs |-> <<>>]
    /\ rom_type = [r \in Runs |-> None]
    /\ offset = [r \in Runs |-> 0]
    /\ original_size = [r \in Runs |-> None]
    /\ result = [r \in Runs |-> None]
    /\ output_file = [r \in Runs |-> None]
    /\ writes = [r \in Runs |-> 0]
    /\ calls = [r \in Runs |-> {}]

inputVars == <<rpx_file, rom_file, system, arg_offset, arg_rom_size>>

\* a --dry-run flag that is never honoured
IsDry_never(r) == FALSE

\* args.dry_run
IsDry(r) == r = "dry"

\* lines 317-338: read both files, strip the SMC header and detect the ROM
\* type, for snes only
Normalize(r) ==
    /\ pc[r] = "start"
    /\ LET stripped == IF system = "snes" THEN strip_smc_header(rom_file)
                       ELSE rom_file
           detected == detect_snes_rom_type(stripped)
       IN /\ rom_data' = [rom_data EXCEPT ![r] = stripped]
          /\ rom_type' = [rom_type EXCEPT ![r] =
                IF system = "snes"
                THEN (IF IsNone(detected) THEN Some("lorom") ELSE detected)
                ELSE None]
          /\ calls' = [calls EXCEPT ![r] =
                {"read_file"}
                  \cup (IF system = "snes"
                        THEN {"strip_smc_header"} \cup DetectCalls(stripped)
                        ELSE {})]
    /\ pc' = [pc EXCEPT ![r] = "locate"]
    /\ UNCHANGED <<offset, original_size, result, output_file, writes>>
    /\ UNCHANGED inputVars /\ UNCHANGED fnVars

\* ResolveOffset going on with the -1 of find_rom_in_rpx instead of exiting
ResolveOffset_noexit(r) ==
    /\ pc[r] = "locate"
    /\ IF ~IsNone(arg_offset)
       THEN /\ offset' = [offset EXCEPT ![r] = Val(arg_offset)]
            /\ UNCHANGED calls
       ELSE /\ offset' = [offset EXCEPT ![r] =
                 find_rom_in_rpx(rpx_file, rom_data[r], system)]
            /\ calls' = [calls EXCEPT ![r] =
                 @ \cup LocateCalls(rpx_file, rom_data[r], system)]
    /\ pc' = [pc EXCEPT ![r] = "size"]
    /\ UNCHANGED <<rom_data, rom_type, original_size, result, output_file, writes>>
    /\ UNCHANGED inputVars /\ UNCHANGED fnVars

\* lines 340-355: the given offset, or find_rom_in_rpx; sys.exit(1) when
\* that returns -1
ResolveOffset(r) ==
    /\ pc[r] = "locate"
    /\ IF ~IsNone(arg_offset)
       THEN /\ offset' = [offset EXCEPT ![r] = Val(arg_offset)]
            /\ pc' = [pc EXCEPT ![r] = "size"]
            /\ UNCHANGED calls
       ELSE LET found == find_rom_in_rpx(rpx_file, rom_data[r], system)
            IN /\ offset' = [offset EXCEPT ![r] = found]
               /\ pc' = [pc EXCEPT ![r] = IF found = -1 THEN "exit1" ELSE "size"]
               /\ calls' = [calls EXCEPT ![r] =
                     @ \cup LocateCalls(rpx_file, rom_data[r], system)]
    /\ UNCHANGED <<rom_data, rom_type, original_size, result, output_file, writes>>
    /\ UNCHANGED inputVars /\ UNCHANGED fnVars

\* lines 357-367: the given ROM size, or get_original_rom_size at the WUP
\* header; then sys.exit(0) on a dry run
ResolveOriginalSize(r) ==
    /\ pc[r] = "size"
    /\ IF ~IsNone(arg_rom_size)
       THEN /\ original_size' = [original_size EXCEPT ![r] = arg_rom_size]
            /\ UNCHANGED calls
       ELSE /\ original_size' = [original_size EXCEPT ![r] =
                 get_original_rom_size(rpx_file, find_wup_header(rpx_file))]
            /\ calls' = [calls EXCEPT ![r] =
                 @ \cup {"find_wup_header", "get_original_rom_size"}]
    /\ pc' = [pc EXCEPT ![r] = IF IsDry(r) THEN "exit0" ELSE "inject"]
    /\ UNCHANGED <<rom_data, rom_type, offset, result, output_file, writes>>
    /\ UNCHANGED inputVars /\ UNCHANGED fnVars

\* lines 369-372: inject_rom; sys.exit(1) when it returns None
InjectStep(r) ==
    /\ pc[r] = "inject"
    /\ LET res == inject_rom(rpx_file, rom_data[r], offset[r], original_size[r])
       IN /\ result' = [result EXCEPT ![r] = res]
          /\ pc' = [pc EXCEPT ![r] = IF IsNone(res) THEN "exit1" ELSE "checksum"]
    /\ calls' = [calls EXCEPT ![r] = @ \cup {"inject_rom"}]
    /\ UNCHANGED <<rom_data, rom_type, offset, original_size, output_file, writes>>
    /\ UNCHANGED inputVars /\ UNCHANGED fnVars

\* the checksum repair applied whatever the system
RepairApplies_always(r) == TRUE

\* line 375: args.system == 'snes' and rom_type
RepairApplies(r) == system = "snes" /\ ~IsNone(rom_type[r])

\* lines 374-376: update_snes_header_checksum on the result, in place; a
\* struct.error it raises ends the run with a traceback
ChecksumStep(r) ==
    /\ pc[r] = "checksum"
    /\ IF RepairApplies(r)
       THEN LET upd == update_snes_header_checksum(
                            Val(result[r]), offset[r], rom_type[r])
            IN /\ result' = [result EXCEPT ![r] = Some(upd.data)]
               /\ pc' = [pc EXCEPT ![r] =
                            IF upd.raised THEN "crashed" ELSE "write"]
               /\ calls' = [calls EXCEPT ![r] =
                            @ \cup {"update_snes_header_checksum"}]
       ELSE /\ pc' = [pc EXCEPT ![r] = "write"]
            /\ UNCHANGED <<result, calls>>
    /\ UNCHANGED <<rom_data, rom_type, offset, original_size, output_file, writes>>
    /\ UNCHANGED inputVars /\ UNCHANGED fnVars

\* lines 378-383: write_file(output_file, result)
WriteStep(r) ==
    /\ pc[r] = "write"
    /\ output_file' = [output_file EXCEPT ![r] = result[r]]
    /\ writes' = [writes EXCEPT ![r] = @ + 1]
    /\ calls' = [calls EXCEPT ![r] = @ \cup {"write_file"}]
    /\ pc' = [pc EXCEPT ![r] = "exit0"]
    /\ UNCHANGED <<rom_data, rom_type, offset, original_size, result>>
    /\ UNCHANGED inputVars /\ UNCHANGED fnVars

Next ==
    \E r \in Runs :
        \/ Normalize(r)
        \/ ResolveOffset(r)
        \/ ResolveOriginalSize(r)
        \/ InjectStep(r)
        \/ ChecksumStep(r)
        \/ WriteStep(r)

Spec == Init /\ [][Next]_vars

\* the process exit status of a run that ended: sys.exit(0) and the normal
\* return are 0, sys.exit(1) and an uncaught exception are 1
Ended(r) == pc[r] \in {"exit0", "exit1", "crashed"}

ExitStatus(r) == IF pc[r] = "exit0" THEN 0 ELSE 1

\* the locator was asked and found nothing
LocatorFailed(r) ==
    /\ pc[r] \notin {"start", "locate"}
    /\ IsNone(arg_offset)
    /\ find_rom_in_rpx(rpx_file, rom_data[r], system) = -1

\* inject_rom was called and returned None
InjectRejected(r) == "inject_rom" \in calls[r] /\ IsNone(result[r])

\* C4: write_file is called at most once per run, and only after the offset
\* was resolved, inject_rom returned a buffer and, for snes, the checksum
\* repair completed (the file written carries the repaired checksum pair);
\* a run in which the locator finds nothing without an override, or in
\* which inject_rom rejects, has ended with a non-zero status and has
\* written nothing.
C4_WriteOnlyAfterPipeline ==
    \A r \in Runs :
        /\ writes[r] <= 1
        /\ writes[r] = 1 =>
            /\ ~IsNone(arg_offset) \/ "find_rom_in_rpx" \in calls[r]
            /\ ~LocatorFailed(r)
            /\ "inject_rom" \in calls[r]
            /\ ~IsNone(inject_rom(rpx_file, rom_data[r], offset[r],
                                  original_size[r]))
            /\ ~IsNone(output_file[r])
            /\ system = "snes" =>
                /\ "update_snes_header_checksum" \in calls[r]
                /\ ValidViaChecksum(Val(output_file[r]),
                                    RepairHeaderOffset(offset[r], rom_type[r]))
        /\ (LocatorFailed(r) \/ InjectRejected(r)) =>
            /\ Ended(r) /\ ExitStatus(r) # 0
            /\ writes[r] = 0 /\ IsNone(output_file[r])

\* C4 witness: the real run located the offset of a snes ROM, spliced,
\* repaired the checksum and wrote the file once
C4_Witness ==
    /\ system = "snes" /\ IsNone(arg_offset)
    /\ writes["real"] = 1 /\ pc["real"] = "exit0"

\* C6 as stated: a nes run strips the 512-byte wrapper from the ROM, never
\* calls validate_snes_header or update_snes_header_checksum, and writes
\* the buffer inject_rom returned.
C6_NesStripsWrapper ==
    \A r \in Runs :
        (system = "nes" /\ pc[r] # "start") =>
            /\ rom_data[r] = strip_smc_header(rom_file)
            /\ calls[r] \cap {"validate_snes_header",
                              "update_snes_header_checksum"} = {}
            /\ writes[r] = 1 =>
                 output_file[r] = inject_rom(rpx_file, rom_data[r], offset[r],
                                             original_size[r])

\* C6 amended: a nes run uses the ROM file as read (strip_smc_header is
\* not called, a 512-byte wrapper stays in the ROM), locates and splices,
\* never calls validate_snes_header or update_snes_header_checksum, and
\* writes the buffer inject_rom returned, unchanged.
C6_NesSkipsHeaderCodec ==
    \A r \in Runs :
        (system = "nes" /\ pc[r] # "start") =>
            /\ rom_data[r] = rom_file
            /\ calls[r] \cap {"strip_smc_header", "detect_snes_rom_type",
                              "validate_snes_header",
                              "update_snes_header_checksum"} = {}
            /\ writes[r] = 1 =>
                 /\ ~IsNone(arg_offset) \/ "find_rom_in_rpx" \in calls[r]
                 /\ "inject_rom" \in calls[r]
                 /\ output_file[r] = inject_rom(rpx_file, rom_file, offset[r],
                                                original_size[r])

\* C6 witness: a nes run on a ROM file with a 512-byte wrapper that located
\* the ROM by itself and wrote the result
C6_Witness ==
    /\ system = "nes" /\ IsNone(arg_offset)
    /\ len(rom_file) % 1024 = 512
    /\ writes["real"] = 1

\* C9: the dry run never calls inject_rom, update_snes_header_checksum or
\* write_file and writes nothing; and once both runs are past the offset
\* resolution they hold the same offset, or both ended with the locator's
\* not-found.
C9_DryRunSameLocate ==
    /\ calls["dry"] \cap {"inject_rom", "update_snes_header_checksum",
                          "write_file"} = {}
    /\ writes["dry"] = 0 /\ IsNone(result["dry"]) /\ IsNone(output_file["dry"])
    /\ pc["dry"] \in {"start", "locate", "size", "exit0", "exit1"}
    /\ (pc["dry"] \notin {"start", "locate"} /\ pc["real"] \notin {"start", "locate"}) =>
        /\ offset["dry"] = offset["real"]
        /\ (pc["dry"] = "exit1") <=> (offset["real"] = -1 /\ IsNone(arg_offset))
        /\ pc["dry"] = "exit0" => "get_original_rom_size" \in calls["dry"]
                                    \/ ~IsNone(arg_rom_size)

\* C9 witness: both runs ended, the real one wrote the file, the dry one
\* stopped with status 0 at the offset the locator found
C9_Witness ==
    /\ IsNone(arg_offset)
    /\ pc["dry"] = "exit0" /\ pc["real"] = "exit0"
    /\ writes["real"] = 1
    /\ offset["dry"] = offset["real"] /\ offset["dry"] > 0

====
